---- MODULE Spec2Model ----
(***************************************************************************)
(* A model of supertube.py: SuperTube (one migration job: field mapping,   *)
(* record building, batched run inside transaction.atomic) and TubeSet     *)
(* (an ordered list of jobs followed by a sequence reset).                 *)
(*                                                                         *)
(* Python values are tagged records: None is [t |-> "none"], the integer n *)
(* is [t |-> "int", v |-> n].  A source or destination object is a         *)
(* function from attribute names to values.  A mapping rule is either a    *)
(* string (an attribute name of the source object) or a callable.          *)
(***************************************************************************)
EXTENDS Integers, Naturals, Sequences, FiniteSets, TLC

VARIABLES
    meta,         \* model name -> set of field descriptors (Model._meta.fields)
    source_rows,  \* source model name -> rows the source queryset yields
    tubes,        \* the SuperTube objects built so far (TubeSet._tubes)
    db,           \* destination model name -> rows stored in its table
    sequences,    \* destination model name -> value of its id sequence
    pc,           \* position inside SuperTube.run ("idle" when no run is active)
    cur,          \* index in tubes of the job whose run() is active (0: none)
    args,         \* keyword arguments of the active run()
    buffer,       \* the local list `buffer` of the active run()
    savepoint,    \* db as it was when transaction.atomic was entered
    ts_pc,        \* position inside TubeSet.run
    ts_kwargs,    \* keyword arguments of the active TubeSet.run
    ts_i,         \* number of tubes TubeSet.run has finished
    run,          \* history: what the current (or the last) run() did
    history,      \* history: per job, a summary of its run() calls so far
    log,          \* history: the events of the current (or last) TubeSet.run
    last_built    \* history: result of the last direct call of build_obj

vars == <<meta, source_rows, tubes, db, sequences, pc, cur, args, buffer,
          savepoint, ts_pc, ts_kwargs, ts_i, run, history, log, last_built>>

----------------------------------------------------------------------------
(* Bounds of the model.                                                    *)

MaxTotal == 3      \* most rows in a source table
MaxBatch == 2      \* largest batch_size passed to run()
MaxRuns == 2       \* most invocations of run() on one job
MaxTubes == 2      \* most jobs added to a TubeSet
MaxSetRuns == 1    \* most invocations of TubeSet.run
MaxSetTotal == 1   \* most rows in the source table of a TubeSet job
MaxVal == 1        \* largest integer stored in a source attribute

----------------------------------------------------------------------------
(* Python values.                                                          *)

None == [t |-> "none"]

IntV(n) == [t |-> "int", v |-> n]

Values == {None} \cup {IntV(n) : n \in 0..MaxVal}

\* bool(value): None and 0 are falsy, every other integer is truthy
Truthy(value) == value.t = "int" /\ value.v # 0

----------------------------------------------------------------------------
(* Field names and the mapping (SuperTube.__init__).                       *)

EmptyDict == <<>>

\* dict.get(key, default)
Get(d, key, default) == IF key \in DOMAIN d THEN d[key] ELSE default

\* a field descriptor of Model._meta.fields
Field(name, fk) == [name |-> name, fk |-> fk]

get_field_name(field) ==
    IF field.fk THEN field.name \o "_id" ELSE field.name

\* __setup_fields: the three field sets of a job
source_fields(source) == {get_field_name(field) : field \in meta[source]}

dest_fields(dest) == {get_field_name(field) : field \in meta[dest]}

\* line 114 without the intersection: every source field is taken
intersection_fields_of_source(source, dest) == source_fields(source)

\* line 114
intersection_fields(source, dest) ==
    source_fields(source) \cap dest_fields(dest)

\* mapping rules: mapping[field] = 'name'  or  mapping[field] = <callable>
Alias(old_field) == [kind |-> "str", name |-> old_field]

Func(f) == [kind |-> "callable", name |-> f]

callable(old_field) == old_field.kind = "callable"

\* __setup_mapping, first loop: the identity over the intersection fields
seed_mapping(inter) == [field \in inter |-> Alias(field)]

\* __setup_mapping, second loop written the wrong way round: an identity entry
\* already present is kept
setup_mapping_keep_seed(inter, custom_mapping) ==
    LET seed == seed_mapping(inter)
    IN  [k \in (DOMAIN seed) \cup (DOMAIN custom_mapping) |->
            IF k \in DOMAIN seed THEN seed[k] ELSE custom_mapping[k]]

\* __setup_mapping: the identity entries, then every custom entry assigned
\* over them
setup_mapping(inter, custom_mapping) ==
    LET seed == seed_mapping(inter)
    IN  [k \in (DOMAIN seed) \cup (DOMAIN custom_mapping) |->
            IF k \in DOMAIN custom_mapping THEN custom_mapping[k] ELSE seed[k]]

\* SuperTube.__init__ (the filter is already applied to source_rows)
SuperTube(source, dest, kwargs) ==
    [source |-> source,
     dest |-> dest,
     custom_mapping |-> Get(kwargs, "mapping", EmptyDict),
     defaults |-> Get(kwargs, "defaults", EmptyDict),
     source_db |-> Get(kwargs, "source_db", "default"),
     total_cnt |-> Len(source_rows[source]),
     source_qs |-> 0,        \* the iterator: number of rows already yielded
     succeed_cnt |-> 0,
     source_fields |-> source_fields(source),
     dest_fields |-> dest_fields(dest),
     intersection_fields |-> intersection_fields(source, dest),
     mapping |-> setup_mapping(intersection_fields(source, dest),
                               Get(kwargs, "mapping", EmptyDict))]

----------------------------------------------------------------------------
(* build_obj.                                                              *)

\* the callables used as rules: lambda x: x.age + 1
CallRaises(f, old_obj) ==
    CASE f = "age_plus_1" ->
            \/ "age" \notin DOMAIN old_obj        \* AttributeError
            \/ old_obj["age"].t # "int"           \* TypeError: None + 1

Call(f, old_obj) ==
    CASE f = "age_plus_1" -> IntV(old_obj["age"].v + 1)

\* does evaluating one rule on old_obj raise (lines 128-132)
RuleRaises(old_field, old_obj) ==
    IF callable(old_field)
    THEN CallRaises(old_field.name, old_obj)
    ELSE old_field.name \notin DOMAIN old_obj     \* getattr: AttributeError

\* the value one rule produces (lines 128-132)
RuleValue(old_field, old_obj) ==
    IF callable(old_field)
    THEN Call(old_field.name, old_obj)
    ELSE old_obj[old_field.name]

\* obj_data of build_obj
obj_data(tube, old_obj) ==
    [field \in DOMAIN tube.mapping |-> RuleValue(tube.mapping[field], old_obj)]

\* self.dest(**obj_data): a keyword that is no field of the model is rejected,
\* a field without keyword gets its (empty) default
DestRaises(tube, data) == ~(DOMAIN data \subseteq tube.dest_fields)

Dest(tube, data) ==
    [field \in tube.dest_fields |->
        IF field \in DOMAIN data THEN data[field] ELSE None]

\* line 136 dropped: every default is written
NeedsDefaultAlways(obj, field) == TRUE

\* the test of line 136: the default is written unless obj has a truthy value
NeedsDefault(obj, field) == ~(field \in DOMAIN obj /\ Truthy(obj[field]))

\* the defaults loop (lines 135-137)
apply_defaults(obj, defaults) ==
    [field \in (DOMAIN obj) \cup (DOMAIN defaults) |->
        IF field \in DOMAIN defaults /\ NeedsDefault(obj, field)
        THEN defaults[field]
        ELSE obj[field]]

\* does build_obj raise for old_obj
BuildRaises(tube, old_obj) ==
    \/ \E field \in DOMAIN tube.mapping : RuleRaises(tube.mapping[field], old_obj)
    \/ DestRaises(tube, [field \in DOMAIN tube.mapping |-> None])

\* the object build_obj returns when it does not raise
build_obj(tube, old_obj) ==
    apply_defaults(Dest(tube, obj_data(tube, old_obj)), tube.defaults)

----------------------------------------------------------------------------
(* The keyword arguments of run().                                        *)

\* the default of run()'s parameter batch_size
DefaultBatchSize == 1000

\* the parameters of run() (check_foreignkey is never read) with the defaults
\* of its signature
RunArgs(kwargs) ==
    [batch_size |-> Get(kwargs, "batch_size", DefaultBatchSize),
     stop_on_error |-> Get(kwargs, "stop_on_error", TRUE),
     dry_run |-> Get(kwargs, "dry_run", FALSE),
     skip |-> Get(kwargs, "skip", TRUE)]

----------------------------------------------------------------------------
(* History variables: what a run did, as an observer of its calls and its  *)
(* output sees it.                                                         *)

\* the summary of a job that was never run
NoHistory ==
    [n |-> 0, only_dry_skip |-> TRUE, ever_dry |-> FALSE, printed |-> <<>>,
     committed |-> <<>>]

\* the summary of job i once run(**kw) is called on it
Called(i, kw) ==
    [history EXCEPT ![i] = [@ EXCEPT !.n = @ + 1,
                               !.only_dry_skip = @ /\ kw.dry_run /\ kw.skip,
                               !.ever_dry = @ \/ kw.dry_run]]

\* the summary once the summary line is printed
Printed(h, i, line) == [h EXCEPT ![i] = [@ EXCEPT !.printed = <<line>>]]

\* the objects the first k flushes of run r stored in the table
RECURSIVE StoredUpTo(_, _)
StoredUpTo(r, k) ==
    IF k = 0 THEN <<>>
    ELSE StoredUpTo(r, k - 1) \o
         (IF r.flushes[k].bulk /\ ~r.flushes[k].raised
          THEN SubSeq(r.flushes[k].objs, 1, r.flushes[k].created)
          ELSE <<>>)

\* the summary once run r returns and its transaction is committed
Committed(h, i, r) ==
    [h EXCEPT ![i] = [@ EXCEPT !.committed = @ \o StoredUpTo(r, Len(r.flushes))]]

NoRun == [tube |-> 0, status |-> "none"]

NewRun(i, kw) ==
    [tube |-> i,
     args |-> kw,
     status |-> "running",          \* "running", "returned" or "raised"
     nth |-> history[i].n + 1,      \* 1 for the first run() of the job
     before |-> history[i],
     entry_succeed |-> tubes[i].succeed_cnt,
     entry_qs |-> tubes[i].source_qs,
     entry_db |-> db,
     pulled |-> <<>>,               \* rows taken from the iterator
     failed |-> <<>>,               \* rows on which build_obj raised
     flushes |-> <<>>,              \* one record per flush
     reports |-> <<>>]              \* progress() calls and summary prints

Note(field, value) == [run EXCEPT ![field] = Append(@, value)]

Ended(r, status) == [r EXCEPT !.status = status]

Event(ev, i, models) == [ev |-> ev, tube |-> i, models |-> models]

\* the number of TubeSet.run calls so far
SetRuns == IF log = <<>> THEN 0 ELSE log[1].tube

----------------------------------------------------------------------------
(* SuperTube.run, one action per position.                                 *)

\* transaction.atomic without the rollback: what was written stays written
AtomicExitNoRollback(status, new_db) == new_db

\* the table when transaction.atomic is left: committed on return, rolled
\* back to the state at entry on an exception
AtomicExit(status, new_db) == IF status = "raised" THEN savepoint ELSE new_db

\* run() is left, by return or by an exception: control goes back to the
\* caller, which is TubeSet.run when that is active; an exception ends it too
Leave(status, new_db) ==
    /\ pc' = "idle"
    /\ db' = AtomicExit(status, new_db)
    /\ ts_i' = IF ts_pc = "loop" THEN ts_i + 1 ELSE ts_i
    /\ ts_pc' = IF ts_pc = "loop" /\ status = "raised" THEN "idle" ELSE ts_pc
    /\ log' = IF ts_pc # "loop" THEN log
              ELSE IF pc = "idle"
              THEN log \o <<Event("enter", cur', <<>>), Event(status, cur', <<>>)>>
              ELSE Append(log, Event(status, cur', <<>>))

\* the progress() call and the two summary lines, as output events
Progress(tube) ==
    [kind |-> "progress", count |-> tube.succeed_cnt, total |-> tube.total_cnt]

Summary(tube) ==
    [kind |-> "summary", count |-> tube.succeed_cnt, total |-> tube.total_cnt]

\* line 152 dropped: run() never returns early
EmptySourceNever(tube) == FALSE

\* line 152: the count taken at construction is zero
EmptySource(tube) == tube.total_cnt = 0

\* line 157 taking a fresh iterator over the source on every run
qs_restarted(tube) == 0

\* line 157: qs = self.source_qs, the iterator made once at line 99, at
\* the position the earlier runs left it
qs(tube) == tube.source_qs

\* succeed_cnt set back to zero when run() starts
succeed_cnt_reset(tube) == 0

\* lines 142-157: run() assigns nothing to succeed_cnt before the loop; the
\* only assignment outside the flushes is line 100, at construction
succeed_cnt_at_entry(tube) == tube.succeed_cnt

\* lines 141-157: the transaction is entered; an empty source returns at once
Enter(i, kw) ==
    /\ pc = "idle"
    /\ cur' = i
    /\ args' = kw
    /\ savepoint' = db
    /\ UNCHANGED <<meta, source_rows, sequences, ts_kwargs, last_built>>
    /\ IF EmptySource(tubes[i])
       THEN /\ run' = Ended([NewRun(i, kw) EXCEPT
                               !.reports = <<Summary(tubes[i])>>], "returned")
            /\ history' = Printed(Called(i, kw), i, Summary(tubes[i]))
            /\ Leave("returned", db)
            /\ UNCHANGED <<tubes, buffer>>
       ELSE /\ run' = NewRun(i, kw)
            /\ tubes' = [tubes EXCEPT ![i].source_qs = qs(tubes[i]),
                                      ![i].succeed_cnt = succeed_cnt_at_entry(tubes[i])]
            /\ history' = Called(i, kw)
            /\ buffer' = <<>>
            /\ pc' = "loop"
            /\ log' = IF ts_pc = "loop" THEN Append(log, Event("enter", i, <<>>))
                      ELSE log
            /\ UNCHANGED <<db, ts_pc, ts_i>>

\* a direct call tube.run(**kwargs)
RunCall(i, kwargs) ==
    /\ ts_pc = "idle"
    /\ history[i].n < MaxRuns
    /\ Enter(i, RunArgs(kwargs))

\* lines 161-166 with the branches exchanged: a failed build always continues
PropagatesNever(skip) == FALSE

\* lines 161-166 with skip ignored: a failed build is always re-raised
PropagatesAlways(skip) == TRUE

\* lines 161-166: a failed build is re-raised unless skip is set
Propagates(skip) == ~skip

\* line 169 with > for >=
BufferOverfull(buf, batch_size) == Len(buf) > batch_size

\* line 169: the buffer has reached the batch size
BufferFull(buf, batch_size) == Len(buf) >= batch_size

\* line 182 dropped: the rest of the buffer is never flushed
HasRestNever(buf) == FALSE

\* line 182: something is left in the buffer after the loop
HasRest(buf) == Len(buf) > 0

\* lines 158-168: the next row is pulled and built
LoopNext ==
    /\ pc = "loop"
    /\ UNCHANGED <<meta, source_rows, sequences, cur, args, savepoint,
                   ts_kwargs, history, last_built>>
    /\ LET tube == tubes[cur]
           rows == source_rows[tube.source]
           n == tube.source_qs + 1
       IN  IF n > Len(rows)
           THEN /\ pc' = "drain"
                /\ UNCHANGED <<tubes, buffer, db, run, log, ts_pc, ts_i>>
           ELSE /\ tubes' = [tubes EXCEPT ![cur].source_qs = n]
                /\ IF BuildRaises(tube, rows[n])
                   THEN IF ~Propagates(args.skip)
                        THEN /\ pc' = "loop"
                             /\ run' = [Note("pulled", n) EXCEPT !.failed = Append(@, n)]
                             /\ UNCHANGED <<buffer, db, log, ts_pc, ts_i>>
                        ELSE /\ run' = Ended([Note("pulled", n) EXCEPT
                                                !.failed = Append(@, n)], "raised")
                             /\ Leave("raised", db)
                             /\ UNCHANGED buffer
                   ELSE /\ buffer' = Append(buffer, [row |-> n, obj |-> build_obj(tube, rows[n])])
                        /\ pc' = "check"
                        /\ run' = Note("pulled", n)
                        /\ UNCHANGED <<db, log, ts_pc, ts_i>>

\* dest.objects.bulk_create(buffer): it raises, or it stores the first k
\* objects of the list and returns them
bulk_create(objs) ==
    {[bulk |-> TRUE, raised |-> TRUE, created |-> <<>>]} \cup
    {[bulk |-> TRUE, raised |-> FALSE, created |-> SubSeq(objs, 1, k)] :
        k \in 0..Len(objs)}

\* lines 170-173 and 183-186 without the test of dry_run
CreatedAlways(objs, dry_run) == bulk_create(objs)

\* the outcomes of one flush (lines 170-173 and 183-186): bulk_create is
\* called unless dry_run is set, and then the buffer itself counts as created
Created(objs, dry_run) ==
    IF dry_run
    THEN {[bulk |-> FALSE, raised |-> FALSE, created |-> objs]}
    ELSE bulk_create(objs)

\* the table after a flush: what bulk_create stored is appended
Stored(model, res) ==
    IF res.bulk THEN [db EXCEPT ![model] = @ \o res.created] ELSE db

FlushNote(res) ==
    [objs |-> buffer, bulk |-> res.bulk, raised |-> res.raised,
     created |-> Len(res.created)]

\* lines 174 and 187 counting the buffer instead of what was created
SucceededBuffer(created, buf) == Len(buf)

\* lines 174 and 187: what a flush adds to succeed_cnt
Succeeded(created, buf) == Len(created)

\* lines 175 and 188 dropped: the buffer keeps its objects
clear_dropped(buf) == buf

\* lines 175 and 188: buffer.clear()
clear(buf) == <<>>

\* lines 169-180: a full buffer is flushed and progress is reported
FlushCheck ==
    /\ pc = "check"
    /\ UNCHANGED <<meta, source_rows, sequences, cur, args, savepoint,
                   ts_kwargs, history, last_built>>
    /\ IF BufferFull(buffer, args.batch_size)
       THEN \E res \in Created(buffer, args.dry_run) :
              IF res.raised
              THEN /\ run' = Ended(Note("flushes", FlushNote(res)), "raised")
                   /\ Leave("raised", db)
                   /\ UNCHANGED <<tubes, buffer>>
              ELSE /\ tubes' = [tubes EXCEPT ![cur].succeed_cnt =
                                   @ + Succeeded(res.created, buffer)]
                   /\ db' = Stored(tubes[cur].dest, res)
                   /\ buffer' = clear(buffer)
                   /\ run' = [Note("flushes", FlushNote(res)) EXCEPT
                                 !.reports = Append(@, Progress(tubes'[cur]))]
                   /\ pc' = "loop"
                   /\ UNCHANGED <<log, ts_pc, ts_i>>
       ELSE /\ pc' = "loop"
            /\ UNCHANGED <<tubes, buffer, db, run, log, ts_pc, ts_i>>

\* lines 182-188: what is left in the buffer is flushed
Drain ==
    /\ pc = "drain"
    /\ UNCHANGED <<meta, source_rows, sequences, cur, args, savepoint,
                   ts_kwargs, history, last_built>>
    /\ IF HasRest(buffer)
       THEN \E res \in Created(buffer, args.dry_run) :
              IF res.raised
              THEN /\ run' = Ended(Note("flushes", FlushNote(res)), "raised")
                   /\ Leave("raised", db)
                   /\ UNCHANGED <<tubes, buffer>>
              ELSE /\ tubes' = [tubes EXCEPT ![cur].succeed_cnt =
                                   @ + Succeeded(res.created, buffer)]
                   /\ db' = Stored(tubes[cur].dest, res)
                   /\ buffer' = clear(buffer)
                   /\ run' = Note("flushes", FlushNote(res))
                   /\ pc' = "report"
                   /\ UNCHANGED <<log, ts_pc, ts_i>>
       ELSE /\ pc' = "report"
            /\ UNCHANGED <<tubes, buffer, db, run, log, ts_pc, ts_i>>

\* lines 189-197: the last progress report and the summary, then the return
Report ==
    /\ pc = "report"
    /\ UNCHANGED <<meta, source_rows, tubes, sequences, cur, args, buffer,
                   savepoint, ts_kwargs, last_built>>
    /\ run' = Ended([run EXCEPT !.reports =
                        @ \o <<Progress(tubes[cur]), Summary(tubes[cur])>>], "returned")
    /\ history' = Printed(Committed(history, cur, run), cur, Summary(tubes[cur]))
    /\ Leave("returned", db)

\* a direct call tube.build_obj(old_obj)
BuildCall(i, old_obj) ==
    /\ pc = "idle"
    /\ ts_pc = "idle"
    /\ last_built' = IF BuildRaises(tubes[i], old_obj)
                     THEN [tube |-> i, old_obj |-> old_obj, raised |-> TRUE,
                           obj |-> EmptyDict]
                     ELSE [tube |-> i, old_obj |-> old_obj, raised |-> FALSE,
                           obj |-> build_obj(tubes[i], old_obj)]
    /\ UNCHANGED <<meta, source_rows, tubes, db, sequences, pc, cur, args,
                   buffer, savepoint, ts_pc, ts_kwargs, ts_i, run, history, log>>

----------------------------------------------------------------------------
(* TubeSet.                                                                *)

\* TubeSet(source_db=...): the source database handed to every job
TubeSetSourceDb == "tubeground"

\* add_tube: the set's source_db is added to the keyword arguments unless
\* they name one, and the new job is appended
add_tube(source, dest, kwargs) ==
    /\ pc = "idle"
    /\ ts_pc = "idle"
    /\ Len(tubes) < MaxTubes
    /\ tubes' = Append(tubes, SuperTube(source, dest,
                   IF TubeSetSourceDb # "" /\ "source_db" \notin DOMAIN kwargs
                   THEN kwargs @@ ("source_db" :> TubeSetSourceDb)
                   ELSE kwargs))
    /\ history' = Append(history, NoHistory)
    /\ UNCHANGED <<meta, source_rows, db, sequences, pc, cur, args, buffer,
                   savepoint, ts_pc, ts_kwargs, ts_i, run, log, last_built>>

\* lines 222-226: TubeSet.run is called; the banner is printed for a dry run
TubeSetRun(kwargs) ==
    /\ pc = "idle"
    /\ ts_pc = "idle"
    /\ SetRuns < MaxSetRuns
    /\ ts_pc' = "loop"
    /\ ts_i' = 0
    /\ ts_kwargs' = kwargs
    /\ log' = IF "dry_run" \in DOMAIN kwargs /\ kwargs["dry_run"]
              THEN <<Event("set_run", SetRuns + 1, <<>>), Event("banner", 0, <<>>)>>
              ELSE <<Event("set_run", SetRuns + 1, <<>>)>>
    /\ UNCHANGED <<meta, source_rows, tubes, db, sequences, pc, cur, args,
                   buffer, savepoint, run, history, last_built>>

\* lines 227-228: the next job of the list is run with the set's arguments
TubeSetNext ==
    /\ ts_pc = "loop"
    /\ ts_i < Len(tubes)
    /\ Enter(ts_i + 1, RunArgs(ts_kwargs))

\* line 229: the loop is over
TubeSetLoopDone ==
    /\ ts_pc = "loop"
    /\ pc = "idle"
    /\ ts_i = Len(tubes)
    /\ ts_pc' = "fixup"
    /\ log' = Append(log, Event("reset_start", 0, <<>>))
    /\ UNCHANGED <<meta, source_rows, tubes, db, sequences, pc, cur, args,
                   buffer, savepoint, ts_kwargs, ts_i, run, history, last_built>>

\* line 215 over the jobs but the first
SequenceModelsButFirst == [t \in 1..Len(tubes) - 1 |-> tubes[t + 1].dest]

\* the models update_sequence resets (line 215)
SequenceModels == [t \in 1..Len(tubes) |-> tubes[t].dest]

\* sequence_reset_sql and its execution: the id sequence of every listed model
\* is set to the number of rows of its table
ResetSequences(models) ==
    [m \in DOMAIN sequences |->
        IF \E k \in 1..Len(models) : models[k] = m THEN Len(db[m]) ELSE sequences[m]]

\* TubeSet.run inside a transaction of its own: a failing fixup empties the
\* tables the jobs wrote
FixupFailedRollback(tables) == [m \in DOMAIN tables |-> <<>>]

\* lines 222-233: TubeSet.run opens no transaction, so an exception of
\* update_sequence undoes nothing of what the jobs committed
FixupFailed(tables) == tables

\* lines 230-233: update_sequence, then the count of migrated tables; a
\* failing statement propagates out of TubeSet.run
UpdateSequence ==
    /\ ts_pc = "fixup"
    /\ \E ok \in BOOLEAN :
         IF ok
         THEN /\ sequences' = ResetSequences(SequenceModels)
              /\ log' = log \o <<Event("fixup", 0, SequenceModels),
                                 Event("migrated", Len(tubes), <<>>)>>
              /\ UNCHANGED db
         ELSE /\ log' = Append(log, Event("fixup_failed", 0, SequenceModels))
              /\ db' = FixupFailed(db)
              /\ UNCHANGED sequences
    /\ ts_pc' = "idle"
    /\ UNCHANGED <<meta, source_rows, tubes, pc, cur, args, buffer,
                   savepoint, ts_kwargs, ts_i, run, history, last_built>>

\* SuperTube(source, dest, **kwargs) called directly: a fresh job
Construct(source, dest, kwargs) ==
    /\ pc = "idle"
    /\ ts_pc = "idle"
    /\ tubes' = <<SuperTube(source, dest, kwargs)>>
    /\ history' = <<NoHistory>>
    /\ UNCHANGED <<meta, source_rows, db, sequences, pc, cur, args, buffer,
                   savepoint, ts_pc, ts_kwargs, ts_i, run, log, last_built>>

----------------------------------------------------------------------------
(* Inputs.                                                                 *)

\* all dictionaries with keys among keys and values among values
Dicts(keys, values) == UNION {[ks -> values] : ks \in SUBSET keys}

\* all lists of at most n elements of S
Lists(S, n) == UNION {[1..k -> S] : k \in 0..n}

\* the models of the class docstring
UserMeta ==
    ("LatencyUser" :> {Field("age", FALSE)}) @@
    ("User" :> {Field("age", FALSE), Field("level", FALSE)}) @@
    ("Profile" :> {Field("age", FALSE), Field("level", FALSE)})

DestModels == {"User", "Profile"}

\* source rows of LatencyUser: age is None (age + 1 raises) or a number
RunRows == {[age |-> None], [age |-> IntV(1)]}

\* mapping = {'age': lambda x: x.age + 1}, defaults = {'level': 0}
UserKwargs ==
    ("mapping" :> ("age" :> Func("age_plus_1"))) @@
    ("defaults" :> ("level" :> IntV(0)))

\* the keyword arguments of a direct run(): every parameter is passed
RunKwargs ==
    [batch_size : 1..MaxBatch, stop_on_error : BOOLEAN, dry_run : BOOLEAN,
     skip : BOOLEAN]

\* the keyword arguments of TubeSet.run: none, dry_run alone, or three of them
SetKwargs ==
    {EmptyDict} \cup [dry_run : BOOLEAN] \cup
    [dry_run : BOOLEAN, batch_size : {1}, skip : BOOLEAN]

Idle ==
    /\ db = [m \in DestModels |-> <<>>]
    /\ sequences = [m \in DestModels |-> 0]
    /\ pc = "idle"
    /\ cur = 0
    /\ args = RunArgs(EmptyDict)
    /\ buffer = <<>>
    /\ savepoint = db
    /\ ts_pc = "idle"
    /\ ts_kwargs = EmptyDict
    /\ ts_i = 0
    /\ run = NoRun
    /\ history = [t \in 1..Len(tubes) |-> NoHistory]
    /\ log = <<>>
    /\ last_built = EmptyDict

----------------------------------------------------------------------------
(* One job, run directly any number of times.                              *)

Init ==
    /\ meta = UserMeta
    /\ source_rows \in [{"LatencyUser"} -> Lists(RunRows, MaxTotal)]
    /\ tubes = <<SuperTube("LatencyUser", "User", UserKwargs)>>
    /\ Idle

Next ==
    \/ \E kwargs \in RunKwargs : RunCall(1, kwargs)
    \/ LoopNext
    \/ FlushCheck
    \/ Drain
    \/ Report

Spec == Init /\ [][Next]_vars

----------------------------------------------------------------------------
(* A TubeSet: jobs are added, then the set is run.                         *)

InitSet ==
    /\ meta = UserMeta
    /\ source_rows \in [{"LatencyUser"} -> Lists(RunRows, MaxSetTotal)]
    /\ tubes = <<>>
    /\ Idle

NextSet ==
    \/ \E dest \in DestModels : add_tube("LatencyUser", dest, UserKwargs)
    \/ \E kwargs \in SetKwargs : TubeSetRun(kwargs)
    \/ TubeSetNext
    \/ TubeSetLoopDone
    \/ UpdateSequence
    \/ LoopNext
    \/ FlushCheck
    \/ Drain
    \/ Report

SpecSet == InitSet /\ [][NextSet]_vars

----------------------------------------------------------------------------
(* Jobs constructed over every pair of schemas and every custom mapping.   *)

FieldPool == {Field("age", FALSE), Field("owner", TRUE), Field("owner_id", FALSE)}

MapKeys == {"age", "owner_id", "username"}

MapRules == {Alias("age"), Alias("email"), Func("age_plus_1")}

MapKwargs == {EmptyDict} \cup {("mapping" :> m) : m \in Dicts(MapKeys, MapRules)}

InitMap ==
    /\ \E sf \in SUBSET FieldPool, df \in SUBSET FieldPool :
          meta = ("LatencyUser" :> sf) @@ ("User" :> df) @@ ("Profile" :> df)
    /\ source_rows = [m \in {"LatencyUser"} |-> <<>>]
    /\ tubes = <<>>
    /\ Idle

NextMap ==
    \E kwargs \in MapKwargs : Construct("LatencyUser", "User", kwargs)

SpecMap == InitMap /\ [][NextMap]_vars

----------------------------------------------------------------------------
(* build_obj called on every source object, for every mapping and defaults. *)

BuildKeys == {"age", "level", "nickname"}

BuildRules == {Alias("age"), Alias("email"), Func("age_plus_1")}

DefaultKeys == {"age", "level", "note"}

DefaultValues == {IntV(n) : n \in 0..MaxVal}

BuildKwargs ==
    {("mapping" :> m) @@ ("defaults" :> d) :
        m \in Dicts(BuildKeys, BuildRules), d \in Dicts(DefaultKeys, DefaultValues)}

InitBuild ==
    /\ meta = UserMeta
    /\ source_rows = [m \in {"LatencyUser"} |-> <<>>]
    /\ \E kwargs \in BuildKwargs :
          tubes = <<SuperTube("LatencyUser", "User", kwargs)>>
    /\ Idle

NextBuild ==
    \E old_obj \in [age : Values] : BuildCall(1, old_obj)

SpecBuild == InitBuild /\ [][NextBuild]_vars

----------------------------------------------------------------------------
(* Properties of SuperTube.run, checked under Spec.                        *)

Rows(i) == source_rows[tubes[i].source]

\* the rows of job i on which build_obj raises, and those it builds
Unbuildable(i) == {n \in 1..Len(Rows(i)) : BuildRaises(tubes[i], Rows(i)[n])}

Buildable(i) == (1..Len(Rows(i))) \ Unbuildable(i)

\* run() has been called, and run describes that call
Ran == run.status # "none"

\* the first run() of job 1 is active or was the last call
FirstRun == Ran /\ run.tube = 1 /\ run.nth = 1

\* every bulk_create call of run r stored and returned all it was given
AllPersisted(r) ==
    \A f \in 1..Len(r.flushes) :
        ~r.flushes[f].raised /\ r.flushes[f].created = Len(r.flushes[f].objs)

BulkCalls(r) == {f \in 1..Len(r.flushes) : r.flushes[f].bulk}

RowsIn(objs) == {objs[k].row : k \in 1..Len(objs)}

CeilDiv(a, b) == (a + b - 1) \div b

\* the count printed by the last report of run r
Reported(r) == r.reports[Len(r.reports)].count

\* C1: a fresh job with total >= 1 rows, none of which fails to build, whose
\* bulk_create stores everything: once the first run() has returned it has
\* flushed ceil(total / batch_size) times (each flush one bulk_create call
\* unless dry_run) and succeed_cnt equals total_cnt
C1_BatchAccounting ==
    (/\ FirstRun
     /\ run.status = "returned"
     /\ tubes[1].total_cnt >= 1
     /\ Unbuildable(1) = {}
     /\ AllPersisted(run))
    => /\ Len(run.flushes) = CeilDiv(tubes[1].total_cnt, run.args.batch_size)
       /\ Cardinality(BulkCalls(run)) =
             IF run.args.dry_run THEN 0 ELSE Len(run.flushes)
       /\ tubes[1].succeed_cnt = tubes[1].total_cnt

C1_Witness ==
    /\ FirstRun
    /\ run.status = "returned"
    /\ tubes[1].total_cnt = 3
    /\ run.args.batch_size = 2
    /\ ~run.args.dry_run
    /\ Unbuildable(1) = {}
    /\ AllPersisted(run)
    /\ Len(run.flushes) = 2
    /\ tubes[1].succeed_cnt = 3

\* C2: a fresh job run with skip=True, k of whose rows fail to build and
\* whose bulk_create stores everything: the run does not raise, no failed row
\* is ever in the buffer, in a flush or in the table, and when the run has
\* returned succeed_cnt = total_cnt - k
C2_SkipSemantics ==
    (/\ FirstRun
     /\ run.args.skip
     /\ AllPersisted(run))
    => /\ run.status # "raised"
       /\ RowsIn(buffer) \cap Unbuildable(1) = {}
       /\ \A f \in 1..Len(run.flushes) :
              RowsIn(run.flushes[f].objs) \cap Unbuildable(1) = {}
       /\ RowsIn(db["User"]) \cap Unbuildable(1) = {}
       /\ run.status = "returned" =>
              /\ tubes[1].succeed_cnt = tubes[1].total_cnt - Cardinality(Unbuildable(1))
              /\ Len(run.failed) = Cardinality(Unbuildable(1))

C2_Witness ==
    /\ FirstRun
    /\ run.args.skip
    /\ ~run.args.dry_run
    /\ AllPersisted(run)
    /\ run.status = "returned"
    /\ tubes[1].total_cnt = 3
    /\ Cardinality(Unbuildable(1)) = 1
    /\ tubes[1].succeed_cnt = 2

\* the rows run r built and had not flushed when it ended
Unflushed(r) ==
    {r.pulled[k] : k \in 1..Len(r.pulled)}
       \ ({r.failed[k] : k \in 1..Len(r.failed)} \cup
          UNION {RowsIn(r.flushes[f].objs) : f \in 1..Len(r.flushes)})

\* C3: when build_obj fails in a run with skip=False the run raises at that
\* row: the failed row is the last row the run pulled, the rows still in the
\* buffer are in no flush and not in the table, every report of the run is the
\* progress report of a full-batch flush, and no summary is printed
C3_StopSemantics ==
    (Ran /\ ~run.args.skip /\ run.failed # <<>>)
    => /\ run.status = "raised"
       /\ pc = "idle"
       /\ Len(run.failed) = 1
       /\ run.pulled[Len(run.pulled)] = run.failed[1]
       /\ tubes[run.tube].source_qs = run.failed[1]
       /\ RowsIn(db["User"]) \cap Unflushed(run) = {}
       /\ Len(run.reports) = Len(run.flushes)
       /\ \A k \in 1..Len(run.reports) : run.reports[k].kind = "progress"
       /\ history[run.tube].printed = run.before.printed

C3_Witness ==
    /\ FirstRun
    /\ ~run.args.skip
    /\ ~run.args.dry_run
    /\ run.status = "raised"
    /\ run.args.batch_size = 2
    /\ run.failed = <<2>>
    /\ Unflushed(run) = {1}
    /\ tubes[1].total_cnt = 3
    /\ tubes[1].source_qs = 2

\* C4: while every run of a job so far was a dry run with skip=True,
\* bulk_create has not been called, the table is as it was before the first
\* run, no run raises, and each run that has returned printed the number of
\* rows that build
C4_DryRunIdempotent ==
    (Ran /\ history[run.tube].only_dry_skip)
    => /\ BulkCalls(run) = {}
       /\ db = [m \in DestModels |-> <<>>]
       /\ run.status # "raised"
       /\ run.status = "returned" =>
             /\ run.reports[Len(run.reports)].kind = "summary"
             /\ Reported(run) = Cardinality(Buildable(1))
             /\ history[run.tube].printed = <<run.reports[Len(run.reports)]>>
       /\ run.before.printed # <<>> =>
             run.before.printed[1].count = Cardinality(Buildable(1))

\* the second of two dry runs has returned: both printed 2 of 3
C4_Witness ==
    /\ Ran
    /\ run.nth = 2
    /\ history[1].only_dry_skip
    /\ run.status = "returned"
    /\ Cardinality(Buildable(1)) = 2
    /\ Cardinality(Unbuildable(1)) = 1
    /\ run.before.printed # <<>>
    /\ run.before.printed[1].count = 2
    /\ Reported(run) = 2
    /\ run.pulled = <<>>

\* C7: a run with dry_run=False that has ended by an exception (a failed
\* build with skip=False or a failed bulk_create) leaves the tables exactly
\* as they were when the run was entered, whatever it had flushed
C7_RollbackOnAbort ==
    (Ran /\ run.status = "raised" /\ ~run.args.dry_run) => db = run.entry_db

C7_Witness ==
    /\ FirstRun
    /\ run.status = "raised"
    /\ ~run.args.dry_run
    /\ ~run.args.skip
    /\ Len(run.flushes) = 1
    /\ run.flushes[1].created = 1
    /\ run.failed = <<2>>
    /\ tubes[1].succeed_cnt = 1
    /\ db["User"] = <<>>

----------------------------------------------------------------------------
(* Properties of TubeSet.run, checked under SpecSet: log holds the events  *)
(* of the current (or the last) call, log[1] being the call itself.        *)

IsBanner(e) == e.ev = "banner"

IsJobEvent(e) == e.ev \in {"enter", "returned", "raised"}

IsFixup(e) == e.ev \in {"fixup", "fixup_failed"}

IsMigrated(e) == e.ev = "migrated"

DrySetRun == Len(log) >= 2 /\ IsBanner(log[2])

\* position in log of the first execution of update_sequence (0: none)
FirstFixup ==
    IF \E k \in 1..Len(log) : IsFixup(log[k])
    THEN CHOOSE k \in 1..Len(log) :
            IsFixup(log[k]) /\ \A q \in 1..k - 1 : ~IsFixup(log[q])
    ELSE 0

\* C5: in a TubeSet.run called with dry_run set the banner comes before every
\* job, and update_sequence is not executed
C5_DryRunSkipsFixup ==
    DrySetRun => /\ \A k \in 3..Len(log) : ~IsBanner(log[k])
                 /\ \A k \in 1..Len(log) : ~IsFixup(log[k])

\* C6: in a TubeSet.run without dry_run the k-th job entered is the k-th job
\* added, each job is left before the next is entered, update_sequence is
\* executed at most once, only after every job has returned, over the dest
\* models of all jobs in their order, and exactly once when TubeSet.run
\* completes
C6_SetOrdering ==
    LET jobs == SelectSeq(log, IsJobEvent)
        fixups == SelectSeq(log, IsFixup)
        f == FirstFixup
    IN  (log # <<>> /\ ~DrySetRun)
        => /\ \A k \in 1..Len(jobs) :
                IF k % 2 = 1
                THEN jobs[k].ev = "enter" /\ jobs[k].tube = (k + 1) \div 2
                ELSE /\ jobs[k].ev # "enter"
                     /\ jobs[k].tube = k \div 2
                     /\ k < Len(jobs) => jobs[k].ev = "returned"
           /\ Len(fixups) <= 1
           /\ f > 0 =>
                /\ \A k \in 1..Len(log) : IsJobEvent(log[k]) => k < f
                /\ Len(jobs) = 2 * Len(log[f].models)
                /\ \A k \in 1..Len(jobs) : jobs[k].ev # "raised"
                /\ log[f].models = [k \in 1..Len(log[f].models) |-> tubes[k].dest]
           /\ (\E k \in 1..Len(log) : IsMigrated(log[k])) => Len(fixups) = 1
           /\ (ts_pc = "idle" /\ \A k \in 1..Len(jobs) : jobs[k].ev # "raised")
              => Len(fixups) = 1

C6_Witness ==
    /\ Len(tubes) = 2
    /\ tubes[1].dest = "Profile"
    /\ tubes[2].dest = "User"
    /\ ts_pc = "idle"
    /\ Len(log) = 8
    /\ log[1].ev = "set_run"
    /\ log[2] = Event("enter", 1, <<>>)
    /\ log[3] = Event("returned", 1, <<>>)
    /\ log[4] = Event("enter", 2, <<>>)
    /\ log[5] = Event("returned", 2, <<>>)
    /\ log[6] = Event("reset_start", 0, <<>>)
    /\ log[7] = Event("fixup", 0, <<"Profile", "User">>)
    /\ log[8] = Event("migrated", 2, <<>>)
    /\ Len(db["Profile"]) = 1
    /\ Len(db["User"]) = 1

----------------------------------------------------------------------------
(* Properties of build_obj, checked under SpecBuild.                       *)

Built == last_built # EmptyDict /\ ~last_built.raised

\* the value the rule of a mapped field produces for the object last built
Produced(field) ==
    RuleValue(tubes[last_built.tube].mapping[field], last_built.old_obj)

\* C8 as stated: every mapped field of a built object holds the value its
\* rule produced
C8_MappedFieldsExact ==
    Built => \A field \in DOMAIN tubes[last_built.tube].mapping :
                last_built.obj[field] = Produced(field)

\* C8 amended: a mapped field of a built object holds the value its rule
\* produced, unless that value is falsy and defaults has an entry for the
\* field: then it holds the default
C8_MappedFieldsOrDefault ==
    Built => \A field \in DOMAIN tubes[last_built.tube].mapping :
                last_built.obj[field] =
                   IF /\ field \in DOMAIN tubes[last_built.tube].defaults
                      /\ ~Truthy(Produced(field))
                   THEN tubes[last_built.tube].defaults[field]
                   ELSE Produced(field)

\* an alias producing 0, replaced by its default, next to a callable producing
\* 1, which keeps its value although the field has a default
C8_Witness ==
    /\ Built
    /\ tubes[1].mapping = ("age" :> Alias("age")) @@ ("level" :> Func("age_plus_1"))
    /\ tubes[1].defaults = ("age" :> IntV(1)) @@ ("level" :> IntV(0))
    /\ last_built.old_obj = [age |-> IntV(0)]
    /\ last_built.obj = ("age" :> IntV(1)) @@ ("level" :> IntV(1))

----------------------------------------------------------------------------
(* Properties of the mapping, checked under SpecMap.                       *)

\* the names two models share, a ForeignKey counting under name + '_id'
SharedNames(source, dest) ==
    {name \in {get_field_name(f) : f \in FieldPool} :
        /\ \E f \in meta[source] : get_field_name(f) = name
        /\ \E f \in meta[dest] : get_field_name(f) = name}

\* C9: the mapping of a job has the shared field names and the keys of the
\* custom mapping as keys; a key of the custom mapping, shared or not, has
\* the custom rule, and every other shared name maps to itself
C9_OverlayWins ==
    \A t \in 1..Len(tubes) :
        LET tube == tubes[t]
            shared == SharedNames(tube.source, tube.dest)
        IN  /\ DOMAIN tube.mapping = shared \cup DOMAIN tube.custom_mapping
            /\ \A k \in DOMAIN tube.custom_mapping :
                  tube.mapping[k] = tube.custom_mapping[k]
            /\ \A field \in shared \ DOMAIN tube.custom_mapping :
                  tube.mapping[field] = Alias(field)

\* a ForeignKey matched under owner_id and overridden, age left as identity
C9_Witness ==
    /\ Len(tubes) = 1
    /\ meta["LatencyUser"] = {Field("age", FALSE), Field("owner_id", FALSE)}
    /\ meta["User"] = {Field("age", FALSE), Field("owner", TRUE)}
    /\ tubes[1].custom_mapping = ("owner_id" :> Func("age_plus_1"))
    /\ tubes[1].mapping = ("age" :> Alias("age")) @@ ("owner_id" :> Func("age_plus_1"))

----------------------------------------------------------------------------
(* The buffer of run(), checked under Spec.                                *)

\* C10: while run() is active with batch_size >= 1 the buffer never holds
\* more than batch_size objects
C10_BufferBounded ==
    (pc # "idle" /\ args.batch_size >= 1) => Len(buffer) <= args.batch_size

\* the buffer is full and waits for its flush, with rows still to come
C10_Witness ==
    /\ pc = "check"
    /\ args.batch_size = 2
    /\ Len(buffer) = 2
    /\ tubes[1].total_cnt = 3
    /\ tubes[1].source_qs = 2

\* C11: a job whose source held no record at construction returns from
\* run() at once: it pulls and builds nothing, issues no flush, prints no
\* progress and only the summary '0 of 0 succeed'; succeed_cnt stays 0
C11_ZeroRecords ==
    (Ran /\ tubes[run.tube].total_cnt = 0) =>
        /\ run.status = "returned"
        /\ pc = "idle"
        /\ run.pulled = <<>>
        /\ run.failed = <<>>
        /\ run.flushes = <<>>
        /\ run.reports = <<[kind |-> "summary", count |-> 0, total |-> 0]>>
        /\ tubes[run.tube].source_qs = 0
        /\ tubes[run.tube].succeed_cnt = 0
        /\ db = run.entry_db

C11_Witness ==
    /\ Ran
    /\ run.nth = 2
    /\ Rows(run.tube) = <<>>
    /\ tubes[run.tube].total_cnt = 0
    /\ run.status = "returned"
    /\ run.reports = <<[kind |-> "summary", count |-> 0, total |-> 0]>>

\* what the flushes of run r that did not raise reported as created
RECURSIVE CreatedUpTo(_, _)
CreatedUpTo(r, k) ==
    IF k = 0 THEN 0
    ELSE CreatedUpTo(r, k - 1) +
         (IF r.flushes[k].raised THEN 0 ELSE r.flushes[k].created)

\* C12: a flush that calls bulk_create adds to succeed_cnt the number of
\* objects bulk_create returned, which may be less than the buffer held; a
\* dry-run flush adds the length of the buffer; over a run the increase of
\* succeed_cnt is the sum of what its flushes reported
C12_CountsWhatWasCreated ==
    Ran =>
        /\ tubes[run.tube].succeed_cnt - run.entry_succeed =
               CreatedUpTo(run, Len(run.flushes))
        /\ \A k \in 1..Len(run.flushes) :
               /\ ~run.flushes[k].bulk =>
                      run.flushes[k].created = Len(run.flushes[k].objs)
               /\ run.flushes[k].bulk = ~run.args.dry_run
               /\ run.flushes[k].created <= Len(run.flushes[k].objs)

C12_Witness ==
    /\ Ran
    /\ run.status = "returned"
    /\ ~run.args.dry_run
    /\ Len(run.flushes) = 2
    /\ Len(run.flushes[1].objs) = 2
    /\ run.flushes[1].created = 1
    /\ run.flushes[2].created = 1
    /\ tubes[run.tube].succeed_cnt = run.entry_succeed + 2

\* C13 as stated: with stop_on_error=False no build error leaves run(),
\* whatever the other flags are; run() does not read stop_on_error
\* (line 150), so with skip=False the error of a row that cannot be built
\* is re-raised all the same
C13_StopOnErrorDecides ==
    (Ran /\ ~run.args.stop_on_error /\ run.failed # <<>>) =>
        run.status # "raised"

\* C14: no step of any run() lowers or resets the succeed_cnt of a job,
\* whether the run returns or raises and whether it is a dry run, and the
\* step that starts a run leaves the counter at the value the run before
\* left
C14_CounterNeverDecreases ==
    [][\A i \in 1..Len(tubes) :
           /\ tubes'[i].succeed_cnt >= tubes[i].succeed_cnt
           /\ pc = "idle" => tubes'[i].succeed_cnt = tubes[i].succeed_cnt]_vars

C14_Witness ==
    /\ Ran
    /\ run.nth = 2
    /\ run.status = "returned"
    /\ run.entry_succeed = 1
    /\ run.entry_db[tubes[run.tube].dest] = <<>>
    /\ tubes[run.tube].succeed_cnt = 2

\* has the object last built a truthy value for field once the mapping is
\* applied and before the defaults are: a mapped field holds what its rule
\* produced, any other field of the destination is unset, and a name that is
\* no field of the destination is no attribute of the object
SetAfterMapping(field) ==
    /\ field \in DOMAIN tubes[last_built.tube].mapping
    /\ Truthy(Produced(field))

\* C15: build_obj writes the default of a field exactly when the value of
\* the object for that field after the mapping step is unset or falsy; a
\* truthy value is kept
C15_DefaultsFillGaps ==
    Built => \A field \in DOMAIN tubes[last_built.tube].defaults :
                last_built.obj[field] =
                   IF SetAfterMapping(field)
                   THEN Produced(field)
                   ELSE tubes[last_built.tube].defaults[field]

\* age is mapped to a truthy value and kept, level is mapped to 0 and
\* replaced, note is no field of the destination and written
C15_Witness ==
    /\ Built
    /\ DOMAIN tubes[1].defaults = {"age", "level", "note"}
    /\ tubes[1].defaults["age"] = IntV(0)
    /\ tubes[1].defaults["level"] = IntV(1)
    /\ tubes[1].defaults["note"] = IntV(1)
    /\ DOMAIN tubes[1].mapping = {"age", "level"}
    /\ Produced("age") = IntV(1)
    /\ Produced("level") = IntV(0)
    /\ last_built.obj["age"] = IntV(1)
    /\ last_built.obj["level"] = IntV(1)
    /\ last_built.obj["note"] = IntV(1)

\* the records the returned runs of the jobs 1..t committed to model m, in
\* the order of the jobs
RECURSIVE CommittedTo(_, _)
CommittedTo(m, t) ==
    IF t = 0 THEN <<>>
    ELSE CommittedTo(m, t - 1) \o
         (IF tubes[t].dest = m THEN history[t].committed ELSE <<>>)

FixupHasFailed == log # <<>> /\ log[Len(log)].ev = "fixup_failed"

\* C16: when update_sequence fails at the end of TubeSet.run, nothing the
\* jobs migrated is rolled back: every table holds every record the
\* completed jobs wrote to it
C16_FixupFailureKeepsData ==
    FixupHasFailed =>
        \A m \in DOMAIN db : db[m] = CommittedTo(m, Len(tubes))

C16_Witness ==
    /\ FixupHasFailed
    /\ Len(tubes) = 2
    /\ tubes[1].dest = "User"
    /\ tubes[2].dest = "User"
    /\ Len(history[1].committed) = 1
    /\ Len(history[2].committed) = 1
    /\ Len(db["User"]) = 2

\* the names under which the fields of model dest are known to a job
DestNames(dest) ==
    {name \in {get_field_name(f) : f \in FieldPool} :
        \E f \in meta[dest] : get_field_name(f) = name}

\* C17 as stated: every key of the mapping of a job is a field of the
\* destination, whatever the custom mapping is
C17_KeysAreDestFields ==
    \A t \in 1..Len(tubes) :
        DOMAIN tubes[t].mapping \subseteq DestNames(tubes[t].dest)

\* C17 amended: a key of the mapping of a job is a field of the destination
\* or a key of the custom mapping, which is taken over unvalidated
C17_SeededKeysAreDestFields ==
    \A t \in 1..Len(tubes) :
        /\ DOMAIN tubes[t].mapping \subseteq
               DestNames(tubes[t].dest) \cup DOMAIN tubes[t].custom_mapping
        /\ DOMAIN tubes[t].custom_mapping \subseteq DOMAIN tubes[t].mapping

\* username is a key of the custom mapping and no field of the destination;
\* the source has owner_id, which the destination lacks and the mapping too
C17_Witness ==
    /\ Len(tubes) = 1
    /\ meta["LatencyUser"] = {Field("age", FALSE), Field("owner_id", FALSE)}
    /\ meta["User"] = {Field("age", FALSE)}
    /\ DOMAIN tubes[1].custom_mapping = {"username"}
    /\ DOMAIN tubes[1].mapping = {"age", "username"}

\* the source rows of a list of buffered objects, in the order of the list
RowSeq(objs) == [k \in 1..Len(objs) |-> objs[k].row]

\* the rows run r pulled and built without an error, in the order pulled
BuiltRows(r) ==
    LET built(n) == \A k \in 1..Len(r.failed) : r.failed[k] # n
    IN  SelectSeq(r.pulled, built)

\* the rows the first k flushes of run r were handed, flush after flush
RECURSIVE FlushedUpTo(_, _)
FlushedUpTo(r, k) ==
    IF k = 0 THEN <<>>
    ELSE FlushedUpTo(r, k - 1) \o
         (IF r.flushes[k].raised THEN <<>> ELSE RowSeq(r.flushes[k].objs))

\* C18: in a run() that does not raise, the rows flushed so far followed by
\* the rows in the buffer are the rows built so far, each once and in source
\* order, and every flushed object is what build_obj made of its row; so a
\* flush leaves the buffer empty, a row that failed to build reaches no
\* flush, and at the return the buffer is empty and every built row was
\* flushed exactly once
C18_FlushedExactlyOnce ==
    (Ran /\ run.status # "raised") =>
        /\ FlushedUpTo(run, Len(run.flushes)) \o RowSeq(buffer) = BuiltRows(run)
        /\ \A f \in 1..Len(run.flushes) :
              \A k \in 1..Len(run.flushes[f].objs) :
                 LET o == run.flushes[f].objs[k]
                 IN  /\ ~BuildRaises(tubes[run.tube], Rows(run.tube)[o.row])
                     /\ o.obj = build_obj(tubes[run.tube], Rows(run.tube)[o.row])
        /\ run.status = "returned" => buffer = <<>>

\* three rows with batch_size 1: the second fails and is skipped, the first
\* and the third are flushed, each in a flush of its own
C18_Witness ==
    /\ Ran
    /\ run.status = "returned"
    /\ run.pulled = <<1, 2, 3>>
    /\ run.failed = <<2>>
    /\ Len(run.flushes) = 2
    /\ RowSeq(run.flushes[1].objs) = <<1>>
    /\ RowSeq(run.flushes[2].objs) = <<3>>
    /\ buffer = <<>>

\* the source of the job was used up before the current or last run began
StartedExhausted ==
    /\ Ran
    /\ tubes[run.tube].total_cnt >= 1
    /\ run.entry_qs = tubes[run.tube].total_cnt

\* C19: a run() that starts after the source of its job was used up pulls
\* and builds no record, issues no flush, does not raise, leaves succeed_cnt
\* and the tables as they were, and prints the figures 'N of M succeed' the
\* run before it printed
C19_SourceConsumedOnce ==
    StartedExhausted =>
        /\ run.pulled = <<>>
        /\ run.failed = <<>>
        /\ run.flushes = <<>>
        /\ run.status # "raised"
        /\ tubes[run.tube].succeed_cnt = run.entry_succeed
        /\ tubes[run.tube].source_qs = run.entry_qs
        /\ db = run.entry_db
        /\ run.status = "returned" =>
              /\ run.reports = <<Progress(tubes[run.tube]), Summary(tubes[run.tube])>>
              /\ Reported(run) = run.entry_succeed
              /\ run.before.printed # <<>> =>
                    run.before.printed = <<run.reports[2]>>

\* the first run migrated two of three rows; the second prints the same
C19_Witness ==
    /\ StartedExhausted
    /\ run.nth = 2
    /\ run.status = "returned"
    /\ ~run.args.dry_run
    /\ run.before.printed = <<[kind |-> "summary", count |-> 2, total |-> 3]>>
    /\ run.reports[2] = [kind |-> "summary", count |-> 2, total |-> 3]
    /\ Len(db[tubes[run.tube].dest]) = 2

\* C20 as stated: while no run() is active on a job that was only ever run
\* with dry_run=False, succeed_cnt is the number of records the runs of the
\* job have left in the destination table, also after a run that raised;
\* the rollback of a raised run empties the table of its flushed batches
\* while succeed_cnt keeps their counts
C20_CounterMatchesTable ==
    \A i \in 1..Len(tubes) :
        (pc = "idle" /\ history[i].n >= 1 /\ ~history[i].ever_dry) =>
            tubes[i].succeed_cnt = Len(db[tubes[i].dest])
====
